---- MODULE Spec2Model ----
(***************************************************************************)
(* Model of janus_core/cli.py: the two typer commands `singlepoint` and    *)
(* `geomopt`, the option parser parse_dict_class and the normaliser        *)
(* parse_typer_dicts.                                                      *)
(*                                                                         *)
(* Python objects that can be aliased (the values wrapped by TyperDict and *)
(* the dictionaries the normaliser creates) live in `heap`; local          *)
(* variables hold references into it, so the in-place writes of the code   *)
(* (typer_dicts[i] = ..., opt_kwargs["trajectory"] = ...) are in-place     *)
(* writes of the model.  Calls to the collaborators SinglePoint,           *)
(* SinglePoint.run and optimize are recorded, with their arguments by      *)
(* value, in `calls`; a collaborator either returns or raises.             *)
(***************************************************************************)
EXTENDS Integers, Sequences, FiniteSets, TLC

VARIABLES
    cmd,     \* entry point in progress: "none", "singlepoint", "geomopt", "parse_typer_dicts"
    args,    \* the arguments of the invocation, as received
    pc,      \* position in the body of the entry point
    heap,    \* Python objects, by address (a sequence: address = index)
    locals,  \* local variables of the entry point
    calls,   \* collaborator calls made so far, in order
    error    \* the exception that ended the invocation, if any

vars == <<cmd, args, pc, heap, locals, calls, error>>

\* Longest list handed directly to parse_typer_dicts.
MaxLen == 2

-----------------------------------------------------------------------------
(* Python values *)

EmptyMap == [k \in {} |-> 0]

\* A value: its type, its repr when it is not a dict, its items when it is.
Atom(t, s) == [t |-> t, s |-> s, d |-> EmptyMap]
NoneV == Atom("NoneType", "None")
PyStr(s) == Atom("str", s)
PyInt(s) == Atom("int", s)
PyFloat(s) == Atom("float", s)
PyBool(b) == Atom("bool", IF b THEN "True" ELSE "False")
PyPath(s) == Atom("Path", s)
EmptyList == Atom("list", "[]")
UnboundV == Atom("unbound", "")
Dict(items) == [t |-> "dict", s |-> "", d |-> items]
EmptyDict == Dict(EmptyMap)

\* isinstance(v, dict)
IsDict(v) == v.t = "dict"

\* bool(v) for the built-in values above
Truthy(v) ==
    CASE v.t = "dict" -> DOMAIN v.d # {}
      [] v.t = "NoneType" -> FALSE
      [] v.t = "int" -> v.s # "0"
      [] v.t = "bool" -> v.s = "True"
      [] v.t = "str" -> v.s # ""
      [] v.t = "list" -> v.s # "[]"
      [] OTHER -> TRUE

\* d[key] = value on a dict
SetItem(dict, key, value) ==
    Dict([k \in DOMAIN dict.d \cup {key} |-> IF k = key THEN value ELSE dict.d[k]])

-----------------------------------------------------------------------------
(* References held by variables and list elements *)

NoneRef == [cls |-> "None", addr |-> 0]
Unbound == [cls |-> "unbound", addr |-> 0]
\* a TyperDict instance whose .value is the object at addr
TyperDictRef(a) == [cls |-> "TyperDict", addr |-> a]
\* the object at addr itself
ObjRef(a) == [cls |-> "obj", addr |-> a]

\* the value a reference denotes
Deref(h, r) == IF r.cls = "obj" THEN h[r.addr] ELSE NoneV

NoError == [type |-> "none", msg |-> ""]
ValueError(m) == [type |-> "ValueError", msg |-> m]

-----------------------------------------------------------------------------
(* Option Parser *)

\* An option as it arrives on the command line: not given, or given with a text.
NotGiven == [given |-> FALSE, text |-> ""]
Given(text) == [given |-> TRUE, text |-> text]

\* ast.literal_eval on the texts the model supplies; "{" is not a literal.
literal_eval(value) ==
    CASE value = "{}" -> [ok |-> TRUE, val |-> EmptyDict]
      [] value = "{'a': 1}" -> [ok |-> TRUE, val |-> Dict("a" :> PyInt("1"))]
      [] value = "{'trajectory': 'x'}" ->
             [ok |-> TRUE, val |-> Dict("trajectory" :> PyStr("x"))]
      [] value = "{'a': 1, 'trajectory': None}" ->
             [ok |-> TRUE, val |-> Dict(("a" :> PyInt("1")) @@ ("trajectory" :> NoneV))]
      [] value = "0" -> [ok |-> TRUE, val |-> PyInt("0")]
      [] value = "[]" -> [ok |-> TRUE, val |-> EmptyList]
      [] value = "''" -> [ok |-> TRUE, val |-> PyStr("")]
      [] OTHER -> [ok |-> FALSE, val |-> NoneV]

\* TyperDict(value): a new instance wrapping a new object.
TyperDict(value, h) ==
    [heap |-> Append(h, value), ref |-> TyperDictRef(Len(h) + 1)]

\* parse_dict_class(value): TyperDict(ast.literal_eval(value)), or the
\* exception of literal_eval.
parse_dict_class(value, h) ==
    LET lit == literal_eval(value)
    IN  IF lit.ok
        THEN LET td == TyperDict(lit.val, h)
             IN  [raised |-> FALSE, heap |-> td.heap, ref |-> td.ref]
        ELSE [raised |-> TRUE, heap |-> h, ref |-> Unbound]

\* typer converting the dictionary-valued options in declaration order: the
\* parser runs on every option that was given, an option not given keeps its
\* default None.
RECURSIVE convert_options(_, _, _, _)
convert_options(raws, i, h, refs) ==
    IF i > Len(raws)
    THEN [raised |-> FALSE, heap |-> h, refs |-> refs]
    ELSE IF ~raws[i].given
         THEN convert_options(raws, i + 1, h, Append(refs, NoneRef))
         ELSE LET r == parse_dict_class(raws[i].text, h)
              IN  IF r.raised
                  THEN [raised |-> TRUE, heap |-> h, refs |-> refs]
                  ELSE convert_options(raws, i + 1, r.heap, Append(refs, r.ref))

-----------------------------------------------------------------------------
(* Keyword-Dictionary Normalizer *)

\* `if typer_dict` as it would be if TyperDict took its truth from the value it
\* wraps (a __bool__ or __len__ delegating to it)
RefTruthyByValue(h, r) == r.cls = "TyperDict" /\ Truthy(h[r.addr])

\* `if typer_dict`: TyperDict defines neither __bool__ nor __len__, so an
\* instance is true whatever it wraps; None is false.
RefTruthy(h, r) == r.cls = "TyperDict"

\* the substitute for an absent input written `None` instead of `{}`
DefaultMappingNone == NoneV

\* the object a new `{}` evaluates to
DefaultMapping == EmptyDict

\* parse_typer_dicts from element i on: element i is overwritten in place,
\* then checked.
RECURSIVE parse_typer_dicts_from(_, _, _)
parse_typer_dicts_from(typer_dicts, i, h) ==
    IF i > Len(typer_dicts)
    THEN [raised |-> FALSE, list |-> typer_dicts, heap |-> h]
    ELSE LET present == RefTruthy(h, typer_dicts[i])
             h2 == IF present THEN h ELSE Append(h, DefaultMapping)
             item == IF present THEN ObjRef(typer_dicts[i].addr) ELSE ObjRef(Len(h2))
             list2 == [typer_dicts EXCEPT ![i] = item]
         IN  IF ~IsDict(Deref(h2, item))
             THEN [raised |-> TRUE, list |-> list2, heap |-> h2]
             ELSE parse_typer_dicts_from(list2, i + 1, h2)

parse_typer_dicts(typer_dicts, h) == parse_typer_dicts_from(typer_dicts, 1, h)

-----------------------------------------------------------------------------
(* Invocation frames *)

NoLocals ==
    [read_kwargs |-> Unbound, calc_kwargs |-> Unbound, opt_kwargs |-> Unbound,
     write_kwargs |-> Unbound, typer_dicts |-> <<>>, s_point |-> UnboundV,
     traj_kwargs |-> UnboundV, filter_kwargs |-> UnboundV,
     fully_opt_dict |-> UnboundV]

\* Arguments of an invocation; an entry point reads only its own parameters.
NoArgs ==
    [struct_path |-> PyPath(""), fmax |-> PyFloat("0.1"), steps |-> PyInt("1000"),
     architecture |-> PyStr("mace_mp"), device |-> PyStr("cpu"),
     fully_opt |-> FALSE, vectors_only |-> FALSE,
     read_kwargs |-> NotGiven, calc_kwargs |-> NotGiven, opt_kwargs |-> NotGiven,
     write_kwargs |-> NotGiven, traj_file |-> NoneV, log_file |-> PyPath(""),
     properties |-> NoneV, typer_dicts |-> <<>>]

Frame ==
    [cmd |-> cmd, args |-> args, pc |-> pc, heap |-> heap, locals |-> locals,
     calls |-> calls, error |-> error]

SetFrame(f) ==
    /\ cmd' = f.cmd
    /\ args' = f.args
    /\ pc' = f.pc
    /\ heap' = f.heap
    /\ locals' = f.locals
    /\ calls' = f.calls
    /\ error' = f.error

\* raise: the exception propagates out of the command, nothing after it runs
Raise(f, e) == [f EXCEPT !.pc = "exit", !.error = e]

\* a collaborator call: positional arguments and keyword arguments, by value
Call(fn, pos, kw) == [fn |-> fn, pos |-> pos, kw |-> kw]

\* the Session a successful SinglePoint(...) returns: s_point.struct is the
\* structure read from struct_path
Session(struct_path) == Atom("Atoms", struct_path.s)

\* log_kwargs of the SinglePoint constructions
session_log_kwargs(log_file) ==
    Dict(("filename" :> log_file) @@ ("filemode" :> PyStr("w")))

\* the keyword arguments of SinglePoint(...), the same in both commands
single_point_kwargs(f) ==
    ("struct_path" :> f.args.struct_path)
    @@ ("architecture" :> f.args.architecture)
    @@ ("device" :> f.args.device)
    @@ ("read_kwargs" :> Deref(f.heap, f.locals.read_kwargs))
    @@ ("calc_kwargs" :> Deref(f.heap, f.locals.calc_kwargs))
    @@ ("log_kwargs" :> session_log_kwargs(f.args.log_file))

\* s_point = SinglePoint(...): returns the session or raises
build_session(f, ok, next) ==
    LET called == [f EXCEPT !.calls = Append(@, Call("SinglePoint", <<>>, single_point_kwargs(f)))]
    IN  IF ok
        THEN [called EXCEPT !.pc = next,
                            !.locals.s_point = Session(f.args.struct_path)]
        ELSE Raise(called, [type |-> "StructureLoadError", msg |-> f.args.struct_path.s])

-----------------------------------------------------------------------------
(* singlepoint *)

\* typer calling singlepoint(...): the options are converted, then the body runs
singlepoint_enter(a) ==
    LET conv == convert_options(<<a.read_kwargs, a.calc_kwargs, a.write_kwargs>>, 1, <<>>, <<>>)
        f0 == [cmd |-> "singlepoint", args |-> a, pc |-> "s_normalize", heap |-> conv.heap,
               locals |-> NoLocals, calls |-> <<>>, error |-> NoError]
    IN  IF conv.raised
        THEN Raise(f0, [type |-> "SyntaxError", msg |-> "literal_eval"])
        ELSE [f0 EXCEPT !.locals.read_kwargs = conv.refs[1],
                        !.locals.calc_kwargs = conv.refs[2],
                        !.locals.write_kwargs = conv.refs[3]]

singlepoint_normalize(f) ==
    LET r == parse_typer_dicts(
                 <<f.locals.read_kwargs, f.locals.calc_kwargs, f.locals.write_kwargs>>,
                 f.heap)
        g == [f EXCEPT !.heap = r.heap, !.locals.typer_dicts = r.list]
    IN  IF r.raised
        THEN Raise(g, ValueError("must be passed as a dictionary"))
        ELSE [g EXCEPT !.pc = "s_session",
                       !.locals.read_kwargs = r.list[1],
                       !.locals.calc_kwargs = r.list[2],
                       !.locals.write_kwargs = r.list[3]]

singlepoint_session(f, ok) == build_session(f, ok, "s_run")

\* s_point.run(properties=..., write_results=True, write_kwargs=...)
singlepoint_run(f, ok) ==
    LET kw == ("properties" :> f.args.properties)
              @@ ("write_results" :> PyBool(TRUE))
              @@ ("write_kwargs" :> Deref(f.heap, f.locals.write_kwargs))
        called == [f EXCEPT !.calls = Append(@, Call("SinglePoint.run", <<>>, kw))]
    IN  IF ok
        THEN [called EXCEPT !.pc = "done"]
        ELSE Raise(called, [type |-> "BackendError", msg |-> "run"])

-----------------------------------------------------------------------------
(* geomopt *)

\* typer calling geomopt(...): the options are converted, then the body runs
geomopt_enter(a) ==
    LET conv == convert_options(
                    <<a.read_kwargs, a.calc_kwargs, a.opt_kwargs, a.write_kwargs>>,
                    1, <<>>, <<>>)
        f0 == [cmd |-> "geomopt", args |-> a, pc |-> "g_normalize", heap |-> conv.heap,
               locals |-> NoLocals, calls |-> <<>>, error |-> NoError]
    IN  IF conv.raised
        THEN Raise(f0, [type |-> "SyntaxError", msg |-> "literal_eval"])
        ELSE [f0 EXCEPT !.locals.read_kwargs = conv.refs[1],
                        !.locals.calc_kwargs = conv.refs[2],
                        !.locals.opt_kwargs = conv.refs[3],
                        !.locals.write_kwargs = conv.refs[4]]

geomopt_normalize(f) ==
    LET r == parse_typer_dicts(
                 <<f.locals.read_kwargs, f.locals.calc_kwargs, f.locals.opt_kwargs,
                   f.locals.write_kwargs>>,
                 f.heap)
        g == [f EXCEPT !.heap = r.heap, !.locals.typer_dicts = r.list]
    IN  IF r.raised
        THEN Raise(g, ValueError("must be passed as a dictionary"))
        ELSE [g EXCEPT !.pc = "g_check_vectors",
                       !.locals.read_kwargs = r.list[1],
                       !.locals.calc_kwargs = r.list[2],
                       !.locals.opt_kwargs = r.list[3],
                       !.locals.write_kwargs = r.list[4]]

\* the check with the first flag not negated
vectors_only_invalid_swapped(fully_opt, vectors_only) == fully_opt /\ vectors_only

\* not fully_opt and vectors_only
vectors_only_invalid(fully_opt, vectors_only) == ~fully_opt /\ vectors_only

geomopt_check_vectors(f) ==
    IF vectors_only_invalid(f.args.fully_opt, f.args.vectors_only)
    THEN Raise(f, ValueError("--vectors-only requires --fully-opt to be set"))
    ELSE [f EXCEPT !.pc = "g_session"]

geomopt_session(f, ok) == build_session(f, ok, "g_check_trajectory")

\* "trajectory" in opt_kwargs
has_trajectory(opt_kwargs) == "trajectory" \in DOMAIN opt_kwargs.d

\* the check placed after the write of the trajectory entry
geomopt_check_trajectory_late(f) ==
    LET a == f.locals.opt_kwargs.addr
        present == has_trajectory(Deref(f.heap, f.locals.opt_kwargs))
        g == [f EXCEPT !.heap[a] = SetItem(@, "trajectory", f.args.traj_file)]
    IN  IF present
        THEN Raise(g, ValueError("'trajectory' must be passed through the --traj option"))
        ELSE [g EXCEPT !.pc = "g_derive"]

\* the check left out
geomopt_check_trajectory_skipped(f) == [f EXCEPT !.pc = "g_derive"]

geomopt_check_trajectory(f) ==
    IF has_trajectory(Deref(f.heap, f.locals.opt_kwargs))
    THEN Raise(f, ValueError("'trajectory' must be passed through the --traj option"))
    ELSE [f EXCEPT !.pc = "g_derive"]

\* the trajectory entry without the `if traj_file` test
trajectory_entry_verbatim(traj_file) == traj_file

\* traj_file if traj_file else None
trajectory_entry(traj_file) == IF Truthy(traj_file) THEN traj_file ELSE NoneV

\* {"filename": traj_file} if traj_file else None
traj_kwargs_of(traj_file) ==
    IF Truthy(traj_file) THEN Dict("filename" :> traj_file) ELSE NoneV

\* the filter configuration with the wrong flag as hydrostatic_strain
filter_kwargs_of_fully_opt(fully_opt, vectors_only) ==
    IF fully_opt THEN Dict("hydrostatic_strain" :> PyBool(fully_opt)) ELSE NoneV

\* {"hydrostatic_strain": vectors_only} if fully_opt else None
filter_kwargs_of(fully_opt, vectors_only) ==
    IF fully_opt THEN Dict("hydrostatic_strain" :> PyBool(vectors_only)) ELSE NoneV

\* {} if fully_opt else {"filter_func": None}
fully_opt_dict_of(fully_opt) ==
    IF fully_opt THEN EmptyDict ELSE Dict("filter_func" :> NoneV)

\* the assignments between the trajectory check and the call of optimize;
\* opt_kwargs["trajectory"] = ... writes into the object opt_kwargs refers to
geomopt_derive(f) ==
    LET a == f.locals.opt_kwargs.addr
    IN  [f EXCEPT !.pc = "g_optimize",
                  !.heap[a] = SetItem(@, "trajectory", trajectory_entry(f.args.traj_file)),
                  !.locals.traj_kwargs = traj_kwargs_of(f.args.traj_file),
                  !.locals.filter_kwargs =
                      filter_kwargs_of(f.args.fully_opt, f.args.vectors_only),
                  !.locals.fully_opt_dict = fully_opt_dict_of(f.args.fully_opt)]

\* log_kwargs of the call of optimize with the session's file mode
optimize_log_kwargs_truncating(log_file) ==
    Dict(("filename" :> log_file) @@ ("filemode" :> PyStr("w")))

\* log_kwargs of the call of optimize
optimize_log_kwargs(log_file) ==
    Dict(("filename" :> log_file) @@ ("filemode" :> PyStr("a")))

\* the keyword arguments of optimize(...) with steps left to its default and
\* write_kwargs taken from the optimizer options
optimize_kwargs_misforwarded(f) ==
    ("fmax" :> f.args.fmax)
    @@ ("steps" :> PyInt("1000"))
    @@ ("filter_kwargs" :> f.locals.filter_kwargs)
    @@ f.locals.fully_opt_dict.d
    @@ ("opt_kwargs" :> Deref(f.heap, f.locals.opt_kwargs))
    @@ ("write_results" :> PyBool(TRUE))
    @@ ("write_kwargs" :> Deref(f.heap, f.locals.opt_kwargs))
    @@ ("traj_kwargs" :> f.locals.traj_kwargs)
    @@ ("log_kwargs" :> optimize_log_kwargs(f.args.log_file))

\* the keyword arguments of optimize(...); **fully_opt_dict adds its items
optimize_kwargs(f) ==
    ("fmax" :> f.args.fmax)
    @@ ("steps" :> f.args.steps)
    @@ ("filter_kwargs" :> f.locals.filter_kwargs)
    @@ f.locals.fully_opt_dict.d
    @@ ("opt_kwargs" :> Deref(f.heap, f.locals.opt_kwargs))
    @@ ("write_results" :> PyBool(TRUE))
    @@ ("write_kwargs" :> Deref(f.heap, f.locals.write_kwargs))
    @@ ("traj_kwargs" :> f.locals.traj_kwargs)
    @@ ("log_kwargs" :> optimize_log_kwargs(f.args.log_file))

\* optimize(s_point.struct, ...): returns or raises
geomopt_optimize(f, ok) ==
    LET called == [f EXCEPT !.calls =
                       Append(@, Call("optimize", <<f.locals.s_point>>, optimize_kwargs(f)))]
    IN  IF ok
        THEN [called EXCEPT !.pc = "done"]
        ELSE Raise(called, [type |-> "BackendError", msg |-> "optimize"])

-----------------------------------------------------------------------------
(* parse_typer_dicts called on a list of its caller *)

\* the caller's list: None, or TyperDict(value), per element
RECURSIVE make_typer_dicts(_, _, _, _)
make_typer_dicts(items, i, h, list) ==
    IF i > Len(items)
    THEN [heap |-> h, list |-> list]
    ELSE IF ~items[i].given
         THEN make_typer_dicts(items, i + 1, h, Append(list, NoneRef))
         ELSE LET td == TyperDict(items[i].val, h)
              IN  make_typer_dicts(items, i + 1, td.heap, Append(list, td.ref))

normalizer_enter(a) ==
    LET m == make_typer_dicts(a.typer_dicts, 1, <<>>, <<>>)
    IN  [cmd |-> "parse_typer_dicts", args |-> a, pc |-> "p_normalize", heap |-> m.heap,
         locals |-> [NoLocals EXCEPT !.typer_dicts = m.list],
         calls |-> <<>>, error |-> NoError]

normalizer_run(f) ==
    LET r == parse_typer_dicts(f.locals.typer_dicts, f.heap)
        g == [f EXCEPT !.heap = r.heap, !.locals.typer_dicts = r.list]
    IN  IF r.raised
        THEN Raise(g, ValueError("must be passed as a dictionary"))
        ELSE [g EXCEPT !.pc = "done"]

-----------------------------------------------------------------------------
(* Inputs *)

\* texts of the dictionary-valued options
KwargsTexts == {"{}", "{'a': 1}", "0"}
OptKwargsTexts ==
    {"{}", "{'a': 1}", "{'trajectory': 'x'}", "{'a': 1, 'trajectory': None}", "[]", "{"}

KwargsOptions == {NotGiven} \cup {Given(t) : t \in KwargsTexts}
OptKwargsOptions == {NotGiven} \cup {Given(t) : t \in OptKwargsTexts}

TrajFiles == {NoneV, PyStr(""), PyStr("traj.xyz")}
LogFiles == {PyPath("geomopt.log"), PyPath("run.log")}
FmaxValues == {PyFloat("0.1"), PyFloat("0.05")}
StepsValues == {PyInt("1000"), PyInt("500")}
PropertyLists == {NoneV, Atom("list", "['energy', 'forces']")}

GeomoptArgs ==
    {[NoArgs EXCEPT !.struct_path = PyPath("water.xyz"),
                    !.fmax = fs[1], !.steps = fs[2],
                    !.fully_opt = fo, !.vectors_only = vo,
                    !.read_kwargs = rk, !.calc_kwargs = ck, !.opt_kwargs = ok,
                    !.write_kwargs = wk, !.traj_file = tf, !.log_file = lf] :
        fs \in FmaxValues \X StepsValues, fo \in BOOLEAN, vo \in BOOLEAN,
        rk \in KwargsOptions, ck \in KwargsOptions, ok \in OptKwargsOptions,
        wk \in KwargsOptions, tf \in TrajFiles, lf \in LogFiles}

SinglepointArgs ==
    {[NoArgs EXCEPT !.struct_path = PyPath("water.xyz"),
                    !.read_kwargs = rk, !.calc_kwargs = ck, !.write_kwargs = wk,
                    !.log_file = lf, !.properties = pr] :
        rk \in OptKwargsOptions, ck \in KwargsOptions, wk \in KwargsOptions,
        lf \in {PyPath("singlepoint.log"), PyPath("run.log")}, pr \in PropertyLists}

\* values a TyperDict handed to parse_typer_dicts may wrap
WrappedValues ==
    {EmptyDict, Dict("a" :> PyInt("1")), PyInt("0"), PyInt("1"), EmptyList, PyStr(""),
     PyStr("x"), NoneV}

ListItems == {[given |-> FALSE, val |-> NoneV]} \cup {[given |-> TRUE, val |-> v] : v \in WrappedValues}

ListsUpTo(n) == UNION {[1..k -> ListItems] : k \in 0..n}

NormalizerArgs == {[NoArgs EXCEPT !.typer_dicts = l] : l \in ListsUpTo(MaxLen)}

-----------------------------------------------------------------------------
(* The state machine *)

Init ==
    /\ cmd = "none"
    /\ args = NoArgs
    /\ pc = "start"
    /\ heap = <<>>
    /\ locals = NoLocals
    /\ calls = <<>>
    /\ error = NoError

Singlepoint == pc = "start" /\ \E a \in SinglepointArgs : SetFrame(singlepoint_enter(a))
SinglepointNormalize == pc = "s_normalize" /\ SetFrame(singlepoint_normalize(Frame))
SinglepointSession ==
    pc = "s_session" /\ \E ok \in BOOLEAN : SetFrame(singlepoint_session(Frame, ok))
SinglepointRun == pc = "s_run" /\ \E ok \in BOOLEAN : SetFrame(singlepoint_run(Frame, ok))

Geomopt == pc = "start" /\ \E a \in GeomoptArgs : SetFrame(geomopt_enter(a))
GeomoptNormalize == pc = "g_normalize" /\ SetFrame(geomopt_normalize(Frame))
GeomoptCheckVectors == pc = "g_check_vectors" /\ SetFrame(geomopt_check_vectors(Frame))
GeomoptSession ==
    pc = "g_session" /\ \E ok \in BOOLEAN : SetFrame(geomopt_session(Frame, ok))
GeomoptCheckTrajectory ==
    pc = "g_check_trajectory" /\ SetFrame(geomopt_check_trajectory(Frame))
GeomoptDerive == pc = "g_derive" /\ SetFrame(geomopt_derive(Frame))
GeomoptOptimize ==
    pc = "g_optimize" /\ \E ok \in BOOLEAN : SetFrame(geomopt_optimize(Frame, ok))

Normalizer == pc = "start" /\ \E a \in NormalizerArgs : SetFrame(normalizer_enter(a))
NormalizerRun == pc = "p_normalize" /\ SetFrame(normalizer_run(Frame))

Next ==
    \/ Singlepoint
    \/ SinglepointNormalize
    \/ SinglepointSession
    \/ SinglepointRun
    \/ Geomopt
    \/ GeomoptNormalize
    \/ GeomoptCheckVectors
    \/ GeomoptSession
    \/ GeomoptCheckTrajectory
    \/ GeomoptDerive
    \/ GeomoptOptimize
    \/ Normalizer
    \/ NormalizerRun

Spec == Init /\ [][Next]_vars

-----------------------------------------------------------------------------
(* An invocation run to its end, as a function of its arguments and of what
   the collaborators do *)

Terminal == {"done", "exit"}

\* one step of the body at f.pc; env says whether the collaborators return
StepOf(f, env) ==
    CASE f.pc = "s_normalize" -> singlepoint_normalize(f)
      [] f.pc = "s_session" -> singlepoint_session(f, env.session_ok)
      [] f.pc = "s_run" -> singlepoint_run(f, env.run_ok)
      [] f.pc = "g_normalize" -> geomopt_normalize(f)
      [] f.pc = "g_check_vectors" -> geomopt_check_vectors(f)
      [] f.pc = "g_session" -> geomopt_session(f, env.session_ok)
      [] f.pc = "g_check_trajectory" -> geomopt_check_trajectory(f)
      [] f.pc = "g_derive" -> geomopt_derive(f)
      [] f.pc = "g_optimize" -> geomopt_optimize(f, env.run_ok)
      [] f.pc = "p_normalize" -> normalizer_run(f)
      [] OTHER -> f

RECURSIVE RunFrom(_, _)
RunFrom(f, env) == IF f.pc \in Terminal THEN f ELSE RunFrom(StepOf(f, env), env)

Enter(c, a) ==
    CASE c = "singlepoint" -> singlepoint_enter(a)
      [] c = "geomopt" -> geomopt_enter(a)
      [] OTHER -> normalizer_enter(a)

Run(c, a, env) == RunFrom(Enter(c, a), env)

-----------------------------------------------------------------------------
(* Vocabulary of the properties *)

\* the errors cli.py raises on invalid input
IsConfigurationError(e) == e.type \in {"ValueError", "SyntaxError"}

\* what the collaborators did in the invocation that ended in this state
EnvTaken ==
    [session_ok |-> error.type # "StructureLoadError",
     run_ok |-> error.type # "BackendError"]

CallsTo(fn) == SelectSeq(calls, LAMBDA c : c.fn = fn)

\* the mapping an option denotes when its text is a mapping literal
GivenMapping(opt) == IF opt.given THEN literal_eval(opt.text).val ELSE EmptyDict

OptionIsMapping(opt) == ~opt.given \/ (literal_eval(opt.text).ok /\ IsDict(literal_eval(opt.text).val))

DictOptionNames(c) ==
    IF c = "geomopt"
    THEN {"read_kwargs", "calc_kwargs", "opt_kwargs", "write_kwargs"}
    ELSE IF c = "singlepoint" THEN {"read_kwargs", "calc_kwargs", "write_kwargs"} ELSE {}

\* the log openings requested so far: the log_kwargs of the calls, in order
LogOpens ==
    LET withLog == SelectSeq(calls, LAMBDA c : "log_kwargs" \in DOMAIN c.kw)
    IN  [i \in 1..Len(withLog) |-> withLog[i].kw["log_kwargs"]]

IsPrefix(s, t) == Len(s) <= Len(t) /\ \A i \in 1..Len(s) : s[i] = t[i]

-----------------------------------------------------------------------------
(* Properties *)

\* C1: a geomopt invocation whose optimizer options contain a 'trajectory'
\* key fails with a configuration error before SinglePoint is constructed,
\* whatever --traj is.
C1_TrajectoryKeyFailsBeforeLoad ==
    (/\ cmd = "geomopt"
     /\ args.opt_kwargs.given
     /\ has_trajectory(literal_eval(args.opt_kwargs.text).val))
    => /\ CallsTo("SinglePoint") = <<>>
       /\ pc \in Terminal => (pc = "exit" /\ IsConfigurationError(error))

\* C2: a geomopt invocation with vectors_only and without fully_opt never gets
\* past the flag check: it ends in a configuration error, and neither
\* SinglePoint nor optimize is called, whatever the other options are.
C2_VectorsOnlyRejected ==
    (cmd = "geomopt" /\ args.vectors_only /\ ~args.fully_opt)
    => /\ calls = <<>>
       /\ pc \in {"g_normalize", "g_check_vectors", "exit"}
       /\ pc = "exit" => IsConfigurationError(error)

C2_Witness ==
    /\ cmd = "geomopt" /\ args.vectors_only /\ ~args.fully_opt
    /\ pc = "exit"
    /\ error = ValueError("--vectors-only requires --fully-opt to be set")
    /\ args.traj_file = PyStr("traj.xyz")

\* C3: parse_typer_dicts on a list of N optional inputs fails with a
\* ValueError exactly when some present input wraps a value that is not a
\* mapping (0, [] and '' included); otherwise the list has length N, element i
\* being the very object input i wraps when input i is present and an empty
\* mapping when it is absent, so every element is a mapping.
C3_InputBad == \E i \in 1..Len(args.typer_dicts) :
    args.typer_dicts[i].given /\ ~IsDict(args.typer_dicts[i].val)

C3_WrappedAddr(i) ==
    Cardinality({j \in 1..i : args.typer_dicts[j].given})

C3_NormalizerContract ==
    (cmd = "parse_typer_dicts" /\ pc \in Terminal)
    => /\ pc = "exit" <=> C3_InputBad
       /\ pc = "exit" => error.type = "ValueError"
       /\ pc = "done" =>
            /\ Len(locals.typer_dicts) = Len(args.typer_dicts)
            /\ \A i \in 1..Len(args.typer_dicts) :
                 LET e == locals.typer_dicts[i]
                     in == args.typer_dicts[i]
                 IN  /\ e.cls = "obj"
                     /\ IsDict(heap[e.addr])
                     /\ in.given => (e.addr = C3_WrappedAddr(i) /\ heap[e.addr] = in.val)
                     /\ ~in.given => heap[e.addr] = EmptyDict

C3_Witness ==
    /\ cmd = "parse_typer_dicts" /\ pc = "done"
    /\ Len(args.typer_dicts) = MaxLen
    /\ ~args.typer_dicts[1].given
    /\ args.typer_dicts[MaxLen].given
    /\ args.typer_dicts[MaxLen].val = Dict("a" :> PyInt("1"))

\* C4: an option given as the literal "{}" and the same option not given at
\* all are indistinguishable: the normaliser yields equal mappings for both,
\* and with every other argument and collaborator outcome the same the two
\* invocations end alike and make the same collaborator calls with the same
\* arguments.
C4_WithoutOption(name) == [args EXCEPT ![name] = NotGiven]

C4_EmptyLiteralSameAsAbsent ==
    \A name \in DictOptionNames(cmd) :
        args[name] = Given("{}") =>
            /\ pc \in {"s_session", "g_check_vectors"} =>
                 LET n == StepOf(Enter(cmd, C4_WithoutOption(name)), EnvTaken)
                 IN  /\ n.pc = pc
                     /\ Deref(n.heap, n.locals[name]) = Deref(heap, locals[name])
            /\ pc \in Terminal =>
                 LET r == Run(cmd, C4_WithoutOption(name), EnvTaken)
                 IN  /\ r.pc = pc
                     /\ r.error = error
                     /\ r.calls = calls

C4_Witness ==
    /\ cmd = "geomopt" /\ pc = "done"
    /\ args.opt_kwargs = Given("{}")
    /\ args.read_kwargs = NotGiven
    /\ Len(CallsTo("optimize")) = 1

\* C5: in every call of optimize the filter configuration follows from the two
\* flags: without fully_opt, filter_func=None is passed and filter_kwargs is
\* None; with fully_opt, filter_func is not passed (the default filter stays)
\* and filter_kwargs is {"hydrostatic_strain": vectors_only}.
C5_FilterFromFlags ==
    cmd = "geomopt" =>
        \A i \in 1..Len(calls) :
            calls[i].fn = "optimize" =>
                LET kw == calls[i].kw
                IN  IF args.fully_opt
                    THEN /\ "filter_func" \notin DOMAIN kw
                         /\ IsDict(kw["filter_kwargs"])
                         /\ DOMAIN kw["filter_kwargs"].d = {"hydrostatic_strain"}
                         /\ kw["filter_kwargs"].d["hydrostatic_strain"].s =
                                (IF args.vectors_only THEN "True" ELSE "False")
                    ELSE /\ "filter_func" \in DOMAIN kw
                         /\ kw["filter_func"] = NoneV
                         /\ kw["filter_kwargs"] = NoneV

C5_Witness ==
    /\ cmd = "geomopt" /\ args.fully_opt /\ ~args.vectors_only
    /\ Len(CallsTo("optimize")) = 1

\* C6 as claimed: in every call of optimize, opt_kwargs["trajectory"] is the
\* --traj value when one was supplied and None otherwise, and traj_kwargs is
\* produced, naming that path, exactly when one was supplied.
C6_TrajSupplied == args.traj_file # NoneV

C6_TrajectoryFollowsOption ==
    cmd = "geomopt" =>
        \A i \in 1..Len(calls) :
            calls[i].fn = "optimize" =>
                LET kw == calls[i].kw
                IN  /\ kw["opt_kwargs"].d["trajectory"] =
                           (IF C6_TrajSupplied THEN args.traj_file ELSE NoneV)
                    /\ (kw["traj_kwargs"] # NoneV) <=> C6_TrajSupplied
                    /\ C6_TrajSupplied => kw["traj_kwargs"] = Dict("filename" :> args.traj_file)

\* C6 amended: the same with "supplied" read as "supplied and not empty": an
\* empty --traj is treated as no trajectory, by both entries alike, so the two
\* never disagree.
C6_TrajNonEmpty == args.traj_file \notin {NoneV, PyStr("")}

C6_TrajectoryFollowsNonEmptyOption ==
    cmd = "geomopt" =>
        \A i \in 1..Len(calls) :
            calls[i].fn = "optimize" =>
                LET kw == calls[i].kw
                    entry == kw["opt_kwargs"].d["trajectory"]
                IN  /\ entry = (IF C6_TrajNonEmpty THEN args.traj_file ELSE NoneV)
                    /\ (kw["traj_kwargs"] # NoneV) <=> C6_TrajNonEmpty
                    /\ C6_TrajNonEmpty => kw["traj_kwargs"] = Dict("filename" :> args.traj_file)
                    /\ (kw["traj_kwargs"] = NoneV) <=> (entry = NoneV)
                    /\ kw["traj_kwargs"] # NoneV => kw["traj_kwargs"].d["filename"] = entry

C6_Witness ==
    /\ cmd = "geomopt" /\ args.traj_file = PyStr("traj.xyz")
    /\ Len(CallsTo("optimize")) = 1
    /\ args.opt_kwargs = Given("{'a': 1}")

\* C7: when geomopt is rejected with a configuration error, nothing the
\* caller can reach has been written: every object the caller's options wrap
\* is as it was parsed, the parameters are rebound only by a normalisation
\* that succeeded, and no 'trajectory' entry has been written into the
\* optimizer options (the mappings the normaliser created are still empty).
C7_Entered == Enter("geomopt", args)

C7_NoMutationOnRejection ==
    (cmd = "geomopt" /\ pc = "exit" /\ IsConfigurationError(error))
    => /\ Len(heap) >= Len(C7_Entered.heap)
       /\ \A a \in 1..Len(C7_Entered.heap) : heap[a] = C7_Entered.heap[a]
       /\ \A a \in (Len(C7_Entered.heap) + 1)..Len(heap) : heap[a] = EmptyDict
       /\ locals.opt_kwargs.cls = "obj" =>
            (has_trajectory(heap[locals.opt_kwargs.addr])
                <=> has_trajectory(GivenMapping(args.opt_kwargs)))
       /\ error.msg = "must be passed as a dictionary" =>
            \A name \in DictOptionNames("geomopt") :
                locals[name] = C7_Entered.locals[name]

C7_Witness ==
    /\ cmd = "geomopt" /\ pc = "exit"
    /\ error = ValueError("'trajectory' must be passed through the --traj option")
    /\ args.traj_file = PyStr("traj.xyz")
    /\ args.write_kwargs = NotGiven

\* C8: geomopt requests its log twice and in this order, on the same path:
\* mode "w" for the SinglePoint construction, then mode "a" for optimize; at
\* no point has "a" come before "w" or "w" come after "a".  singlepoint
\* requests its log once, in mode "w".
C8_LogPlan ==
    IF cmd = "geomopt"
    THEN <<Dict(("filename" :> args.log_file) @@ ("filemode" :> PyStr("w"))),
           Dict(("filename" :> args.log_file) @@ ("filemode" :> PyStr("a")))>>
    ELSE <<Dict(("filename" :> args.log_file) @@ ("filemode" :> PyStr("w")))>>

C8_LogOpenedWriteThenAppend ==
    cmd \in {"geomopt", "singlepoint"} =>
        /\ IsPrefix(LogOpens, C8_LogPlan)
        /\ (pc = "done" /\ error = NoError) => LogOpens = C8_LogPlan

C8_Witness ==
    /\ cmd = "geomopt" /\ pc = "done" /\ error = NoError
    /\ Len(LogOpens) = 2
    /\ args.log_file = PyPath("run.log")

\* C9: the commands are sequential pipelines that an error ends.  geomopt
\* calls optimize at most once, only as the call after a SinglePoint
\* construction that returned, and only for arguments that pass every
\* validation; singlepoint calls run at most once, only after SinglePoint
\* returned, and never calls optimize; after a failed normalisation,
\* validation or session construction there is no evaluation or optimization.
C9_ValidArgs ==
    /\ \A name \in DictOptionNames(cmd) : OptionIsMapping(args[name])
    /\ cmd = "geomopt" =>
         /\ ~(args.vectors_only /\ ~args.fully_opt)
         /\ ~has_trajectory(GivenMapping(args.opt_kwargs))

C9_SequentialPipeline ==
    cmd \in {"geomopt", "singlepoint"} =>
        /\ Len(CallsTo("SinglePoint")) <= 1
        /\ Len(CallsTo("optimize")) <= 1
        /\ Len(CallsTo("SinglePoint.run")) <= 1
        /\ cmd = "geomopt" => CallsTo("SinglePoint.run") = <<>>
        /\ cmd = "singlepoint" => CallsTo("optimize") = <<>>
        /\ calls # <<>> => calls[1].fn = "SinglePoint"
        /\ Len(calls) >= 2 =>
             /\ Len(calls) = 2
             /\ calls[2].fn = (IF cmd = "geomopt" THEN "optimize" ELSE "SinglePoint.run")
             /\ locals.s_point # UnboundV
             /\ C9_ValidArgs
        /\ error # NoError => pc = "exit"
        /\ (IsConfigurationError(error) \/ error.type = "StructureLoadError") =>
             Len(calls) <= 1
        /\ ~C9_ValidArgs => Len(calls) <= 1

C9_Witness ==
    /\ cmd = "geomopt" /\ pc = "exit" /\ error.type = "BackendError"
    /\ Len(calls) = 2
    /\ args.fully_opt /\ args.vectors_only

\* C10: optimize receives the caller's values unchanged: fmax and steps as
\* given, the structure of the session just built, write_kwargs as
\* normalised, write_results=True, and optimizer options that are the
\* caller's items, values unchanged, plus the one 'trajectory' item; so
\* --max-force 0.05 --steps 500 --fully-opt gives fmax 0.05, steps 500, the
\* default filter with hydrostatic_strain False and no trajectory.
C10_ForwardedUnchanged ==
    cmd = "geomopt" =>
        \A i \in 1..Len(calls) :
            calls[i].fn = "optimize" =>
                LET kw == calls[i].kw
                    given == GivenMapping(args.opt_kwargs).d
                IN  /\ kw["fmax"] = args.fmax
                    /\ kw["steps"] = args.steps
                    /\ calls[i].pos = <<locals.s_point>>
                    /\ locals.s_point = Session(args.struct_path)
                    /\ calls[i - 1].fn = "SinglePoint"
                    /\ calls[i - 1].kw["struct_path"] = args.struct_path
                    /\ kw["write_kwargs"] = GivenMapping(args.write_kwargs)
                    /\ kw["write_results"] = PyBool(TRUE)
                    /\ DOMAIN kw["opt_kwargs"].d = DOMAIN given \cup {"trajectory"}
                    /\ \A k \in DOMAIN given : kw["opt_kwargs"].d[k] = given[k]
                    /\ (/\ args.fmax = PyFloat("0.05") /\ args.steps = PyInt("500")
                        /\ args.fully_opt /\ ~args.vectors_only /\ args.traj_file = NoneV)
                       => /\ kw["fmax"].s = "0.05" /\ kw["steps"].s = "500"
                          /\ "filter_func" \notin DOMAIN kw
                          /\ kw["filter_kwargs"] = Dict("hydrostatic_strain" :> PyBool(FALSE))
                          /\ kw["opt_kwargs"].d["trajectory"] = NoneV
                          /\ kw["traj_kwargs"] = NoneV

C10_Witness ==
    /\ cmd = "geomopt" /\ pc = "done"
    /\ args.fmax = PyFloat("0.05") /\ args.steps = PyInt("500")
    /\ args.fully_opt /\ ~args.vectors_only /\ args.traj_file = NoneV
    /\ args.opt_kwargs = Given("{'a': 1}")
    /\ args.write_kwargs = Given("{'a': 1}")
    /\ Len(CallsTo("optimize")) = 1

====
